---- MODULE Spec2Model ----
(***************************************************************************)
(* The analysis artifact cache of flowistry_pdg_construction               *)
(* (body_cache.rs): BodyCache::get over its two tiers, the dump pass, the  *)
(* path resolver and the bundle loader, as a state machine over one        *)
(* analysis session and the files on disk.                                 *)
(*                                                                         *)
(* File names are sequences of one-character strings, so that              *)
(* starts_with("lib") and the extension rewriting are computed on          *)
(* characters as the code computes them.                                   *)
(***************************************************************************)
EXTENDS Integers, Sequences, FiniteSets, TLC

VARIABLES
    tcx,          \* host compiler context: output file names, extern paths, borrowck results
    disk,         \* the files on disk: path -> contents (absent paths are not in the domain)
    local_cache,  \* BodyCache.local_cache: DefIndex -> CachedBody
    cache,        \* BodyCache.cache: CrateNum -> BodyMap
    timer,        \* BodyCache.timer
    status,       \* "running", or "panicked" once a panic ended the process
    last_call,    \* the most recent operation, its argument and what it returned
    handed,       \* every (key, CachedBody) a get has returned so far
    retrievals,   \* per local item: calls of CachedBody::retrieve made by get
    resolutions,  \* per extern crate: calls of local_or_remote_paths made by get
    decodes,      \* per extern crate: calls of decode_from_file made by get
    last_paths,   \* result of the most recent direct call of local_or_remote_paths
    out_path      \* result of the most recent direct call of intermediate_out_dir

vars == <<tcx, disk, local_cache, cache, timer, status, last_call, handed,
          retrievals, resolutions, decodes, last_paths, out_path>>

----------------------------------------------------------------------------
(* Bounds of the model *)

NumLocalItems == 2
NumForeignItems == 2
MaxExternPaths == 2
MaxStatements == 2
MaxFacts == 2

LocalItems == 1..NumLocalItems
ForeignItems == 1..NumForeignItems
ExternCrates == {1, 2}

\* What start.elapsed() may measure of a Retrieval: no time, or some.
Elapsed == {0, 1}

----------------------------------------------------------------------------
(* Program constants *)

LOCAL_CRATE == 0

INTERMEDIATE_ARTIFACT_EXT == <<"b", "w", "b", "f">>

----------------------------------------------------------------------------
(* Paths: std::path::Path as a directory and a file name *)

LastDot(file) ==
    LET dots == {i \in 1..Len(file) : file[i] = "."}
    IN  IF dots = {} THEN 0 ELSE CHOOSE i \in dots : \A j \in dots : j <= i

\* Path::file_stem: the name up to its last dot; the whole name when it has no
\* dot or only a leading one.
file_stem(file) ==
    IF LastDot(file) <= 1 THEN file ELSE SubSeq(file, 1, LastDot(file) - 1)

\* Path::with_extension: the stem, then "." and the new extension.  Every path
\* here names a file (the host reports file locations), so the case of a path
\* without a file name, which with_extension returns as it is, does not arise.
with_extension(p, ext) ==
    [dir |-> p.dir,
     file |-> file_stem(p.file) \o (IF ext = <<>> THEN <<>> ELSE <<".">> \o ext)]

starts_with_lib(file) ==
    Len(file) >= 3 /\ SubSeq(file, 1, 3) = <<"l", "i", "b">>

\* OutputFilenames::with_extension: out_directory.join(filestem), extension set.
output_filenames_with_extension(ext) ==
    with_extension([dir |-> tcx.output_filenames.out_directory,
                    file |-> tcx.output_filenames.filestem], ext)

prepend_lib_always(file) == <<"l", "i", "b">> \o file

\* The file name under which artifacts are stored: "lib" is prepended unless
\* the name starts with it.
canonical_file_name(file) ==
    IF starts_with_lib(file) THEN file ELSE <<"l", "i", "b">> \o file

intermediate_out_dir(ext) ==
    LET rustc_out_file == output_filenames_with_extension(ext)
    IN  [dir |-> rustc_out_file.dir, file |-> canonical_file_name(rustc_out_file.file)]

MapWithExtension(ps, ext) == [i \in 1..Len(ps) |-> with_extension(ps[i], ext)]

local_or_remote_paths_no_fallback(krate, ext) ==
    IF krate = LOCAL_CRATE
    THEN <<intermediate_out_dir(ext)>>
    ELSE MapWithExtension(tcx.crate_extern_paths[krate], ext)

local_or_remote_paths(krate, ext) ==
    IF krate = LOCAL_CRATE
    THEN <<intermediate_out_dir(ext)>>
    ELSE Append(MapWithExtension(tcx.crate_extern_paths[krate], ext),
                intermediate_out_dir(ext))

----------------------------------------------------------------------------
(* Bodies, borrowck facts and Retrieval *)

\* What the borrow-check engine returns for an item: a body, whose source field
\* names the item, and the optional Polonius input facts (triples).
BodyWithFacts(krate, index, variant) ==
    [body |->
        [source |-> [krate |-> krate, index |-> index],
         source_scopes |-> IF variant = "plain" THEN <<"Set">> ELSE <<"Set", "Set">>,
         basic_blocks |->
            IF variant = "plain"
            THEN << <<"Assign">> >>
            ELSE << <<"FakeRead", "Assign">>, <<"StorageLive", "FakeRead">> >>],
     input_facts |->
        [some |-> variant # "nofacts",
         subset_base |->
            IF variant = "fakeread"
            THEN << <<1, 2, 7>>, <<1, 2, 8>>, <<index, 1, 7>> >>
            ELSE <<>>]]

\* tcx.borrowck holds, for every function of the current unit, what the engine
\* returns for it.
get_body_with_borrowck_facts(local_def_id) == tcx.borrowck[local_def_id]

\* The functions of the current unit, which DumpingVisitor collects.
Targets == DOMAIN tcx.borrowck

\* A sanitizer that stops at the first FakeRead of each block.
clean_first_fake_read_only(body) ==
    [body EXCEPT
        !.source_scopes = [i \in 1..Len(@) |-> "Clear"],
        !.basic_blocks =
            [b \in 1..Len(@) |->
                [s \in 1..Len(@[b]) |->
                    IF /\ @[b][s] = "FakeRead"
                       /\ \A t \in 1..(s - 1) : @[b][t] # "FakeRead"
                    THEN "Nop" ELSE @[b][s]]]]

\* A sanitizer that deletes FakeRead statements instead of replacing them.
clean_removing_fake_reads(body) ==
    [body EXCEPT
        !.source_scopes = [i \in 1..Len(@) |-> "Clear"],
        !.basic_blocks =
            [b \in 1..Len(@) |-> SelectSeq(@[b], LAMBDA st : st # "FakeRead")]]

\* body.source_scopes: every scope's local_data = ClearCrossCrate::Clear;
\* every statement of every block: FakeRead(_) => make_nop().
clean_undecodable_data_from_body(body) ==
    [body EXCEPT
        !.source_scopes = [i \in 1..Len(@) |-> "Clear"],
        !.basic_blocks =
            [b \in 1..Len(@) |->
                [s \in 1..Len(@[b]) |->
                    IF @[b][s] = "FakeRead" THEN "Nop" ELSE @[b][s]]]]

RECURSIVE dedup_pairs(_)
dedup_pairs(pairs) ==
    IF pairs = <<>> THEN <<>>
    ELSE LET front == dedup_pairs(SubSeq(pairs, 1, Len(pairs) - 1))
             last == pairs[Len(pairs)]
         IN  IF \E n \in 1..Len(front) : front[n] = last
             THEN front ELSE Append(front, last)

\* A projection that collects the pairs into a set-like sequence.
project_subset_base_dedup(raw) ==
    dedup_pairs([i \in 1..Len(raw) |-> <<raw[i][1], raw[i][2]>>])

\* .map(|&(v1, v2, _)| (v1.into(), v2.into())).collect()
project_subset_base(raw) == [i \in 1..Len(raw) |-> <<raw[i][1], raw[i][2]>>]

NoCachedBody ==
    [body |-> [source |-> [krate |-> LOCAL_CRATE, index |-> 0],
               source_scopes |-> <<>>, basic_blocks |-> <<>>],
     input_facts |-> [subset_base |-> <<>>]]

\* Retrieval that takes a missing fact set for an empty one.
retrieve_from_default_facts(body_with_facts) ==
    [panicked |-> FALSE,
     value |-> [body |-> clean_undecodable_data_from_body(body_with_facts.body),
                input_facts |->
                    [subset_base |->
                        project_subset_base(body_with_facts.input_facts.subset_base)]]]

\* Retrieval that stores the engine's body as it is.
retrieve_from_unsanitized(body_with_facts) ==
    IF ~body_with_facts.input_facts.some
    THEN [panicked |-> TRUE, value |-> NoCachedBody]
    ELSE [panicked |-> FALSE,
          value |-> [body |-> body_with_facts.body,
                     input_facts |->
                        [subset_base |->
                            project_subset_base(body_with_facts.input_facts.subset_base)]]]

\* CachedBody::retrieve on what the engine returned: the body is sanitized,
\* then .expect("polonius input must exist") panics on a missing fact set.
retrieve_from(body_with_facts) ==
    IF ~body_with_facts.input_facts.some
    THEN [panicked |-> TRUE, value |-> NoCachedBody]
    ELSE [panicked |-> FALSE,
          value |-> [body |-> clean_undecodable_data_from_body(body_with_facts.body),
                     input_facts |->
                        [subset_base |->
                            project_subset_base(body_with_facts.input_facts.subset_base)]]]

retrieve(local_def_id) == retrieve_from(get_body_with_borrowck_facts(local_def_id))

----------------------------------------------------------------------------
(* The codec and the files on disk *)

RECURSIVE EntriesOf(_, _)
EntriesOf(bodies, indices) ==
    IF indices = {} THEN <<>>
    ELSE LET i == CHOOSE x \in indices : \A y \in indices : x <= y
         IN  <<[index |-> i, body |-> bodies[i].body,
                subset_base |-> bodies[i].input_facts.subset_base]>>
             \o EntriesOf(bodies, indices \ {i})

\* An encoder that leaves out the items whose fact set is empty.
encode_skipping_empty_facts(bodies) ==
    [ok |-> TRUE,
     entries |-> EntriesOf(bodies, {i \in DOMAIN bodies :
                                       bodies[i].input_facts.subset_base # <<>>})]

\* encode_to_file: the file contents that hold a BodyMap, one entry per item.
encode(bodies) == [ok |-> TRUE, entries |-> EntriesOf(bodies, DOMAIN bodies)]

\* decode_from_file on well-formed contents: the BodyMap rebuilt from the entries.
decode(contents) ==
    LET es == contents.entries
    IN  [i \in {es[n].index : n \in 1..Len(es)} |->
            LET e == es[CHOOSE n \in 1..Len(es) : es[n].index = i]
            IN  [body |-> e.body, input_facts |-> [subset_base |-> e.subset_base]]]

\* Contents that decode_from_file fails on.
Garbage == [ok |-> FALSE, entries |-> <<>>]

exists(path) == path \in DOMAIN disk

\* The BodyMap the dump pass of extern crate `krate` wrote when that crate was
\* compiled, holding the given items.
ExternBodyMap(krate, items) ==
    [i \in items |-> retrieve_from(BodyWithFacts(krate, i, "fakeread")).value]

----------------------------------------------------------------------------
(* The bundle loader *)

Min(S) == CHOOSE x \in S : \A y \in S : x <= y

LoadPanic(paths) == [outcome |-> "panic", data |-> <<>>, paths |-> paths, found |-> 0]

\* A loader that gives up when its first candidate does not exist.
load_body_and_facts_first_only(krate) ==
    LET paths == local_or_remote_paths(krate, INTERMEDIATE_ARTIFACT_EXT)
    IN  IF ~exists(paths[1]) \/ ~disk[paths[1]].ok
        THEN LoadPanic(paths)
        ELSE [outcome |-> "ok", data |-> decode(disk[paths[1]]),
              paths |-> paths, found |-> 1]

\* A loader that takes a unit without any file for a unit without items.
load_body_and_facts_empty_when_missing(krate) ==
    LET paths == local_or_remote_paths(krate, INTERMEDIATE_ARTIFACT_EXT)
        existing == {i \in 1..Len(paths) : exists(paths[i])}
    IN  IF existing = {}
        THEN [outcome |-> "ok", data |-> <<>>, paths |-> paths, found |-> 0]
        ELSE IF ~disk[paths[Min(existing)]].ok
        THEN [outcome |-> "panic", data |-> <<>>, paths |-> paths,
              found |-> Min(existing)]
        ELSE [outcome |-> "ok", data |-> decode(disk[paths[Min(existing)]]),
              paths |-> paths, found |-> Min(existing)]

\* A loader that goes on to the next candidate when a file does not decode.
load_body_and_facts_skip_undecodable(krate) ==
    LET paths == local_or_remote_paths(krate, INTERMEDIATE_ARTIFACT_EXT)
        existing == {i \in 1..Len(paths) : exists(paths[i])}
        decodable == {i \in existing : disk[paths[i]].ok}
    IN  IF existing = {}
        THEN LoadPanic(paths)
        ELSE IF decodable = {}
        THEN [outcome |-> "panic", data |-> <<>>, paths |-> paths,
              found |-> Min(existing)]
        ELSE [outcome |-> "ok", data |-> decode(disk[paths[Min(decodable)]]),
              paths |-> paths, found |-> Min(decodable)]

\* load_body_and_facts: the first candidate that exists is decoded, and a decode
\* error is unwrapped (a panic); without any existing candidate it panics.
\* found is the position of the candidate that was opened, 0 for none.
load_body_and_facts(krate) ==
    LET paths == local_or_remote_paths(krate, INTERMEDIATE_ARTIFACT_EXT)
        existing == {i \in 1..Len(paths) : exists(paths[i])}
    IN  IF existing = {}
        THEN LoadPanic(paths)
        ELSE IF ~disk[paths[Min(existing)]].ok
        THEN [outcome |-> "panic", data |-> <<>>, paths |-> paths,
              found |-> Min(existing)]
        ELSE [outcome |-> "ok", data |-> decode(disk[paths[Min(existing)]]),
              paths |-> paths, found |-> Min(existing)]

----------------------------------------------------------------------------
(* BodyCache *)

never_hit(c, k) == FALSE

\* Cache::get finds the key already computed.
local_hit(c, k) == k \in DOMAIN c

foreign_hit(c, k) == k \in DOMAIN c

insert_evicting(c, k, v) == (k :> v)

\* Cache::get stores the computed value under the key and keeps the rest.
insert(c, k, v) == (k :> v) @@ c

\* An item lookup that serves some other item of the unit for a missing one.
lookup_or_any(bodies, index) ==
    IF index \in DOMAIN bodies THEN [some |-> TRUE, value |-> bodies[index]]
    ELSE IF DOMAIN bodies # {} THEN [some |-> TRUE, value |-> bodies[Min(DOMAIN bodies)]]
    ELSE [some |-> FALSE, value |-> NoCachedBody]

\* BodyMap::get(&key.index)
lookup(bodies, index) ==
    IF index \in DOMAIN bodies
    THEN [some |-> TRUE, value |-> bodies[index]]
    ELSE [some |-> FALSE, value |-> NoCachedBody]

NoKey == [krate |-> LOCAL_CRATE, index |-> 0]

NoPath == [dir |-> "", file |-> <<>>]

\* What a call did, in order: "retrieve" of an item, "resolve" of a unit's
\* candidate paths, "decode" of a file, "encode" to a file.
Event(ev, item, path) == [ev |-> ev, item |-> item, path |-> path]

\* get returns `value` for `key`; hit tells whether the tier's Cache already
\* held the key.
Return(key, value, hit, events) ==
    /\ last_call' = [op |-> "get", key |-> key, hit |-> hit, returned |-> TRUE,
                     value |-> value, events |-> events]
    /\ handed' = handed \cup {[key |-> key, value |-> value]}

\* get panics: the process ends and nothing is returned.
Panic(key, hit, events) ==
    /\ status' = "panicked"
    /\ last_call' = [op |-> "get", key |-> key, hit |-> hit, returned |-> FALSE,
                     value |-> NoCachedBody, events |-> events]
    /\ UNCHANGED handed

set_elapsed(t, elapsed) == elapsed

\* *self.timer.borrow_mut() += start.elapsed()
add_elapsed(t, elapsed) == t + elapsed

get_local(key) ==
    /\ IF local_hit(local_cache, key.index)
       THEN /\ Return(key, local_cache[key.index], TRUE, <<>>)
            /\ UNCHANGED <<local_cache, timer, status, retrievals>>
       ELSE \E elapsed \in Elapsed :
              LET res == retrieve(key.index)
                  events == <<Event("retrieve", key.index, NoPath)>>
              IN  /\ retrievals' = [retrievals EXCEPT ![key.index] = @ + 1]
                  /\ IF res.panicked
                     THEN /\ Panic(key, FALSE, events)
                          /\ UNCHANGED <<local_cache, timer>>
                     ELSE /\ local_cache' = insert(local_cache, key.index, res.value)
                          /\ timer' = add_elapsed(timer, elapsed)
                          /\ Return(key, local_cache'[key.index], FALSE, events)
                          /\ UNCHANGED status
    /\ UNCHANGED <<cache, resolutions, decodes>>

\* .get(&key.index).expect(..) on the unit's BodyMap
get_item(key, bodies, hit, events) ==
    LET found == lookup(bodies, key.index)
    IN  IF found.some
        THEN Return(key, found.value, hit, events) /\ UNCHANGED status
        ELSE Panic(key, hit, events)

get_foreign(key) ==
    /\ IF foreign_hit(cache, key.krate)
       THEN /\ get_item(key, cache[key.krate], TRUE, <<>>)
            /\ UNCHANGED <<cache, resolutions, decodes>>
       ELSE LET loaded == load_body_and_facts(key.krate)
                events ==
                    <<Event("resolve", key.krate, NoPath)>>
                    \o (IF loaded.found > 0
                        THEN <<Event("decode", key.krate, loaded.paths[loaded.found])>>
                        ELSE <<>>)
            IN  /\ resolutions' = [resolutions EXCEPT ![key.krate] = @ + 1]
                /\ decodes' = [decodes EXCEPT ![key.krate] =
                                  IF loaded.found > 0 THEN @ + 1 ELSE @]
                /\ IF loaded.outcome = "ok"
                   THEN /\ cache' = insert(cache, key.krate, loaded.data)
                        /\ get_item(key, cache'[key.krate], FALSE, events)
                   ELSE /\ Panic(key, FALSE, events)
                        /\ UNCHANGED cache
    /\ UNCHANGED <<local_cache, timer, retrievals>>

\* BodyCache::get, with the files it leaves on disk
as_local_never(key) == FALSE

\* key.as_local(): the item belongs to the current unit.
as_local(key) == key.krate = LOCAL_CRATE

get_leaving(key, files) ==
    /\ status = "running"
    /\ key.krate = LOCAL_CRATE => key.index \in Targets
    /\ IF as_local(key) THEN get_local(key) ELSE get_foreign(key)
    /\ disk' = files
    /\ UNCHANGED <<tcx, last_paths, out_path>>

\* A get that also persists the local bodies it holds.
get_write_through(key) ==
    get_leaving(key, (intermediate_out_dir(INTERMEDIATE_ARTIFACT_EXT)
                         :> encode(local_cache)) @@ disk)

get(key) == get_leaving(key, disk)

----------------------------------------------------------------------------
(* The dump pass *)

\* A collection that leaves out the items whose Retrieval fails.
RECURSIVE collect_skipping_failures(_)
collect_skipping_failures(targets) ==
    IF targets = {}
    THEN [failed |-> FALSE, bodies |-> <<>>, events |-> <<>>]
    ELSE LET local_def_id == Min(targets)
             to_write == retrieve(local_def_id)
             rest == collect_skipping_failures(targets \ {local_def_id})
         IN  [failed |-> FALSE,
              bodies |-> IF to_write.panicked THEN rest.bodies
                         ELSE (local_def_id :> to_write.value) @@ rest.bodies,
              events |-> <<Event("retrieve", local_def_id, NoPath)>> \o rest.events]

\* vis.targets.iter().map(|local_def_id| ...retrieve...).collect(): Retrieval of
\* every target in the visitor's order; a panic in one ends the pass there.
RECURSIVE collect(_)
collect(targets) ==
    IF targets = {}
    THEN [failed |-> FALSE, bodies |-> <<>>, events |-> <<>>]
    ELSE LET local_def_id == Min(targets)
             to_write == retrieve(local_def_id)
             rest == collect(targets \ {local_def_id})
         IN  IF to_write.panicked
             THEN [failed |-> TRUE, bodies |-> <<>>,
                   events |-> <<Event("retrieve", local_def_id, NoPath)>>]
             ELSE [failed |-> rest.failed,
                   bodies |-> IF rest.failed THEN <<>>
                              ELSE (local_def_id :> to_write.value) @@ rest.bodies,
                   events |-> <<Event("retrieve", local_def_id, NoPath)>> \o rest.events]

dump_mir_and_borrowck_facts ==
    /\ status = "running"
    /\ LET collected == collect(Targets)
           path == intermediate_out_dir(INTERMEDIATE_ARTIFACT_EXT)
       IN  /\ status' = IF collected.failed THEN "panicked" ELSE status
           /\ disk' = IF collected.failed THEN disk
                      ELSE (path :> encode(collected.bodies)) @@ disk
           /\ last_call' = [op |-> "dump", key |-> NoKey, hit |-> FALSE,
                            returned |-> ~collected.failed, value |-> NoCachedBody,
                            events |-> collected.events
                                       \o (IF collected.failed THEN <<>>
                                           ELSE <<Event("encode", LOCAL_CRATE, path)>>)]
    /\ UNCHANGED <<tcx, local_cache, cache, timer, handed, retrievals,
                   resolutions, decodes, last_paths, out_path>>

----------------------------------------------------------------------------
(* Direct calls of the path resolver (both functions are pub) *)

Exts == {INTERMEDIATE_ARTIFACT_EXT, <<"x">>}

ResolvePaths(krate, ext) ==
    /\ status = "running"
    /\ last_paths' = [called |-> TRUE, krate |-> krate, ext |-> ext,
                      paths |-> local_or_remote_paths(krate, ext)]
    /\ UNCHANGED <<tcx, disk, local_cache, cache, timer, status, last_call, handed,
                   retrievals, resolutions, decodes, out_path>>

IntermediateOutDir(ext) ==
    /\ status = "running"
    /\ out_path' = [called |-> TRUE, ext |-> ext, path |-> intermediate_out_dir(ext)]
    /\ UNCHANGED <<tcx, disk, local_cache, cache, timer, status, last_call, handed,
                   retrievals, resolutions, decodes, last_paths>>

----------------------------------------------------------------------------
(* The host context and the disk a session starts from *)

Digit(k) == <<"1", "2", "3", "4">>[k]

\* Where the host reports extern crate `krate`: deps/libd<k>.<ext>
HostFile(krate, ext) ==
    [dir |-> "deps", file |-> <<"l", "i", "b", "d", Digit(krate), ".">> \o ext]

Rlib == <<"r", "l", "i", "b">>

BorrowckVariants == {"fakeread", "nofacts"}

\* The locations the host may report for an extern crate.  Crate 1 is the unit
\* whose build varies (reported nowhere, or at one location); every other crate
\* is reported at its one location.
SessionExternPaths(krate) ==
    IF krate = 1 THEN {<<>>, <<HostFile(krate, Rlib)>>} ELSE {<<HostFile(krate, Rlib)>>}

SessionContexts ==
    {[output_filenames |-> [out_directory |-> "out", filestem |-> <<"f", "o", "o">>],
      crate_extern_paths |-> e,
      borrowck |-> b] :
        e \in {f \in [ExternCrates -> UNION {SessionExternPaths(k) : k \in ExternCrates}] :
                  \A k \in ExternCrates : f[k] \in SessionExternPaths(k)},
        b \in {[i \in LocalItems |-> BodyWithFacts(LOCAL_CRATE, i, v[i])] :
                  v \in [LocalItems -> BorrowckVariants]}}

Candidates(krate) ==
    LET paths == local_or_remote_paths(krate, INTERMEDIATE_ARTIFACT_EXT)
    IN  {paths[i] : i \in 1..Len(paths)}

\* Every path a session of this context may look at.
CandidatePaths == UNION {Candidates(k) : k \in ExternCrates}

\* What a file may hold when the session starts.  Under a candidate of crate 1:
\* the bundle crate 1's dump pass wrote, whole or lacking its last item, or
\* contents that do not decode.  Under the location of another crate: that
\* crate's whole bundle.
InitialContentsAt(path) ==
    (IF path \in Candidates(1)
     THEN {Garbage, encode(ExternBodyMap(1, ForeignItems)),
           encode(ExternBodyMap(1, 1..(NumForeignItems - 1)))}
     ELSE {})
    \cup {encode(ExternBodyMap(k, ForeignItems)) :
             k \in {c \in ExternCrates \ {1} :
                       path \in Candidates(c) \ {intermediate_out_dir(INTERMEDIATE_ARTIFACT_EXT)}}}

InitialDisks ==
    UNION {{f \in [S -> UNION {InitialContentsAt(p) : p \in S}] :
               \A p \in S : f[p] \in InitialContentsAt(p)} :
           S \in SUBSET CandidatePaths}

NoPaths == [called |-> FALSE, krate |-> LOCAL_CRATE, ext |-> <<>>, paths |-> <<>>]
NoOutPath == [called |-> FALSE, ext |-> <<>>, path |-> [dir |-> "", file |-> <<>>]]

SessionStart ==
    /\ local_cache = <<>>
    /\ cache = <<>>
    /\ timer = 0
    /\ status = "running"
    /\ last_call = [op |-> "none", key |-> NoKey, hit |-> FALSE, returned |-> FALSE,
                    value |-> NoCachedBody, events |-> <<>>]
    /\ handed = {}
    /\ retrievals = [i \in LocalItems |-> 0]
    /\ resolutions = [k \in ExternCrates |-> 0]
    /\ decodes = [k \in ExternCrates |-> 0]
    /\ last_paths = NoPaths
    /\ out_path = NoOutPath

Init ==
    /\ tcx \in SessionContexts
    /\ disk \in InitialDisks
    /\ SessionStart

\* The items a session requests: every local item, every item of crate 1 (one
\* of which its bundle may lack), and the first item of every other crate.
Keys ==
    {[krate |-> LOCAL_CRATE, index |-> i] : i \in LocalItems}
    \cup {[krate |-> 1, index |-> i] : i \in ForeignItems}
    \cup {[krate |-> k, index |-> 1] : k \in ExternCrates \ {1}}

Next ==
    \/ \E key \in Keys : get(key)
    \/ dump_mir_and_borrowck_facts

Spec == Init /\ [][Next]_vars

----------------------------------------------------------------------------
(* The path resolver on its own, over a wider range of host contexts *)

PathStems ==
    {<<"f", "o", "o">>, <<"l", "i", "b", "f", "o", "o">>, <<"l", "i">>, <<"l", "i", "b">>}

PathHostFiles ==
    {[dir |-> "deps", file |-> <<"l", "i", "b", "d", ".", "r", "l", "i", "b">>],
     [dir |-> "deps", file |-> <<"l", "i", "b", "d">>],
     [dir |-> "out", file |-> <<"d", ".", "1", ".", "s", "o">>]}

SeqsUpTo(S, n) == UNION {[1..m -> S] : m \in 0..n}

PathContexts ==
    {[output_filenames |-> [out_directory |-> d, filestem |-> s],
      crate_extern_paths |-> e,
      borrowck |-> [i \in LocalItems |-> BodyWithFacts(LOCAL_CRATE, i, "fakeread")]] :
        d \in {"out", ""}, s \in PathStems,
        e \in [ExternCrates -> SeqsUpTo(PathHostFiles, MaxExternPaths)]}

PathInit ==
    /\ tcx \in PathContexts
    /\ disk = <<>>
    /\ SessionStart

PathNext ==
    \/ \E k \in {LOCAL_CRATE} \cup ExternCrates, ext \in Exts : ResolvePaths(k, ext)
    \/ \E ext \in Exts : IntermediateOutDir(ext)

PathSpec == PathInit /\ [][PathNext]_vars

----------------------------------------------------------------------------
(* Retrieval, the dump pass and the loader over a wider range of engine      *)
(* outputs: the first function of the current unit has any of the bodies or  *)
(* any of the fact sets below, the unit has any number of functions, and no  *)
(* file exists until the dump pass writes one.  The extern crates are        *)
(* reported nowhere, so that crate 1 is looked for under the current unit's  *)
(* canonical output path.                                                    *)

StatementKinds == {"Assign", "FakeRead", "Nop"}

RetrievalBlocks == SeqsUpTo(StatementKinds, MaxStatements)

RetrievalBodies ==
    {[source |-> [krate |-> LOCAL_CRATE, index |-> 1],
      source_scopes |-> sc,
      basic_blocks |-> bbs] :
        sc \in {<<>>, <<"Set">>, <<"Set", "Clear">>},
        bbs \in {<<>>} \cup {<<b>> : b \in RetrievalBlocks}
                \cup {<<b, <<"FakeRead", "FakeRead">> >> : b \in RetrievalBlocks}}

RetrievalTriples == {<<1, 2, 7>>, <<1, 2, 8>>, <<2, 1, 7>>}

RetrievalFacts ==
    {[some |-> FALSE, subset_base |-> <<>>]}
    \cup {[some |-> TRUE, subset_base |-> f] : f \in SeqsUpTo(RetrievalTriples, MaxFacts)}

EngineOutputs ==
    {[body |-> b, input_facts |-> BodyWithFacts(LOCAL_CRATE, 1, "fakeread").input_facts] :
        b \in RetrievalBodies}
    \cup {[body |-> BodyWithFacts(LOCAL_CRATE, 1, "fakeread").body, input_facts |-> f] :
              f \in RetrievalFacts}

RetrievalContexts ==
    {[output_filenames |-> [out_directory |-> "out", filestem |-> <<"f", "o", "o">>],
      crate_extern_paths |-> [k \in ExternCrates |-> <<>>],
      borrowck |-> b] :
        b \in {<<>>}
              \cup {[i \in 1..n |-> IF i = 1 THEN out
                                    ELSE BodyWithFacts(LOCAL_CRATE, i, "fakeread")] :
                        n \in LocalItems, out \in EngineOutputs}}

RetrievalInit ==
    /\ tcx \in RetrievalContexts
    /\ disk = <<>>
    /\ SessionStart

RetrievalKeys ==
    {[krate |-> LOCAL_CRATE, index |-> i] : i \in LocalItems}
    \cup {[krate |-> 1, index |-> 1]}

RetrievalNext ==
    \/ \E key \in RetrievalKeys : get(key)
    \/ dump_mir_and_borrowck_facts

RetrievalSpec == RetrievalInit /\ [][RetrievalNext]_vars

----------------------------------------------------------------------------
(* Claims *)

LocalKey(i) == [krate |-> LOCAL_CRATE, index |-> i]

\* The keys get has been called with so far.
Requested ==
    {h.key : h \in handed} \cup (IF last_call.op = "get" THEN {last_call.key} ELSE {})

\* C1: over any sequence of get calls, Retrieval has run exactly once for every
\* local item that was requested and never for another one, however often the
\* item was requested, and all Artifacts handed out for one local item are equal.
C1_RetrievalOncePerLocalItem ==
    /\ \A i \in LocalItems :
          retrievals[i] = IF LocalKey(i) \in Requested THEN 1 ELSE 0
    /\ \A h1, h2 \in handed :
          (h1.key = h2.key /\ h1.key.krate = LOCAL_CRATE) => h1.value = h2.value

\* A local item requested again is served from local_cache, after another local
\* item was retrieved too.
C1_Witness ==
    /\ last_call.op = "get" /\ last_call.key.krate = LOCAL_CRATE
    /\ last_call.hit /\ last_call.returned
    /\ \A i \in LocalItems : retrievals[i] = 1

\* C2: over any sequence of get calls, the bundle of each foreign unit has been
\* resolved and decoded at most once, on the first request for an item of the
\* unit; requests served from foreign_index resolve and decode nothing.
C2_ForeignBundleDecodedOnce ==
    \A k \in ExternCrates :
        /\ decodes[k] <= 1
        /\ resolutions[k] = IF \E key \in Requested : key.krate = k THEN 1 ELSE 0
        /\ k \in DOMAIN cache => decodes[k] = 1

\* Two distinct items of one foreign unit were handed out, the later from
\* foreign_index.
C2_Witness ==
    /\ last_call.op = "get" /\ last_call.key.krate = 1
    /\ last_call.hit /\ last_call.returned
    /\ \E h \in handed : h.key.krate = 1 /\ h.key.index # last_call.key.index
    /\ decodes[1] = 1

has_extension(file, ext) ==
    /\ LastDot(file) > 1
    /\ SubSeq(file, LastDot(file) + 1, Len(file)) = ext

\* C3: local_or_remote_paths(unit, ext) is the one canonical output path for the
\* current unit; for an external unit with n host-reported locations it is those
\* n locations in the host's order, each with ext for its extension, and then
\* the canonical output path of the current unit.
C3_CandidatePaths ==
    last_paths.called =>
        LET ps == last_paths.paths
            ext == last_paths.ext
        IN  IF last_paths.krate = LOCAL_CRATE
            THEN ps = <<intermediate_out_dir(ext)>>
            ELSE LET host == tcx.crate_extern_paths[last_paths.krate]
                 IN  /\ Len(ps) = Len(host) + 1
                     /\ \A i \in 1..Len(host) :
                           /\ ps[i].dir = host[i].dir
                           /\ file_stem(ps[i].file) = file_stem(host[i].file)
                           /\ has_extension(ps[i].file, ext)
                     /\ ps[Len(host) + 1] = intermediate_out_dir(ext)

\* An external unit reported at two different locations was resolved.
C3_Witness ==
    /\ last_paths.called
    /\ last_paths.krate # LOCAL_CRATE
    /\ Len(tcx.crate_extern_paths[last_paths.krate]) = 2
    /\ last_paths.paths[1] # last_paths.paths[2]
    /\ Len(last_paths.paths) = 3

Fallback == intermediate_out_dir(INTERMEDIATE_ARTIFACT_EXT)

\* No location the host reports for the unit holds an artifact file.
NoHostCandidateExists(krate) ==
    \A i \in 1..Len(tcx.crate_extern_paths[krate]) :
        with_extension(tcx.crate_extern_paths[krate][i], INTERMEDIATE_ARTIFACT_EXT)
            \notin DOMAIN disk

\* C4: when get loads an external unit none of whose host-reported candidates
\* exists, while the current unit's canonical output path exists and decodes,
\* load_body_and_facts does not panic: the unit's bundle is the one decoded
\* from that path.
C4_FallbackPathLoads ==
    [][\A k \in ExternCrates :
          (/\ resolutions'[k] # resolutions[k]
           /\ NoHostCandidateExists(k)
           /\ Fallback \in DOMAIN disk
           /\ disk[Fallback].ok)
          => (/\ k \in DOMAIN cache'
              /\ cache'[k] = decode(disk[Fallback]))]_vars

\* A unit the host reports at a location without a file was loaded from the
\* current unit's canonical output path.
C4_Witness ==
    /\ resolutions[1] = 1
    /\ Len(tcx.crate_extern_paths[1]) = 1
    /\ NoHostCandidateExists(1)
    /\ 1 \in DOMAIN cache
    /\ Fallback \in DOMAIN disk
    /\ cache[1] = decode(disk[Fallback])
    /\ last_call.returned

HasLibPrefix(file) ==
    Len(file) >= 3 /\ file[1] = "l" /\ file[2] = "i" /\ file[3] = "b"

\* C5: intermediate_out_dir keeps the directory of the host's default output
\* file and prepends "lib" to its name exactly when the name does not start with
\* "lib"; the resulting name starts with "lib", and normalizing it again changes
\* nothing.
C5_LibPrefixNormalized ==
    out_path.called =>
        LET default == output_filenames_with_extension(out_path.ext)
            name == out_path.path.file
        IN  /\ out_path.path.dir = default.dir
            /\ HasLibPrefix(default.file) => name = default.file
            /\ ~HasLibPrefix(default.file) => name = <<"l", "i", "b">> \o default.file
            /\ HasLibPrefix(name)
            /\ canonical_file_name(name) = name

\* "foo.bwbf" became "libfoo.bwbf".
C5_Witness ==
    /\ out_path.called
    /\ output_filenames_with_extension(out_path.ext).file
          = <<"f", "o", "o", ".", "b", "w", "b", "f">>
    /\ out_path.path.file = <<"l", "i", "b", "f", "o", "o", ".", "b", "w", "b", "f">>

\* C6: a get for a foreign item whose unit's bundle is in foreign_index without
\* an entry for the item has panicked and returned nothing.
C6_MissingForeignItemIsFatal ==
    (/\ last_call.op = "get"
     /\ last_call.key.krate # LOCAL_CRATE
     /\ last_call.key.krate \in DOMAIN cache
     /\ last_call.key.index \notin DOMAIN cache[last_call.key.krate])
    => (status = "panicked" /\ ~last_call.returned)

\* A unit's bundle served one item from foreign_index and then lacked the next.
C6_Witness ==
    /\ last_call.op = "get" /\ last_call.key.krate = 1 /\ last_call.hit
    /\ 1 \in DOMAIN cache
    /\ last_call.key.index \notin DOMAIN cache[1]
    /\ DOMAIN cache[1] # {}
    /\ status = "panicked"

NoCandidateExists(krate) ==
    NoHostCandidateExists(krate) /\ Fallback \notin DOMAIN disk

\* C7: a get for a foreign item whose unit is not in foreign_index, while no
\* candidate path of the unit exists, panics, returns nothing and leaves the
\* unit out of foreign_index.
C7_NoCandidateIsFatal ==
    [][\A key \in Keys :
          (/\ last_call'.op = "get" /\ last_call'.key = key
           /\ key.krate # LOCAL_CRATE
           /\ key.krate \notin DOMAIN cache
           /\ NoCandidateExists(key.krate))
          => (/\ status' = "panicked"
              /\ ~last_call'.returned
              /\ key.krate \notin DOMAIN cache'
              /\ handed' = handed)]_vars

\* A unit with a host-reported location and no file anywhere was requested.
C7_Witness ==
    /\ last_call.op = "get" /\ last_call.key.krate = 1
    /\ Len(tcx.crate_extern_paths[1]) = 1
    /\ NoCandidateExists(1)
    /\ resolutions[1] = 1 /\ decodes[1] = 0
    /\ 1 \notin DOMAIN cache
    /\ status = "panicked"

\* The borrow-check engine returns no fact set for the item.
NoFacts(i) == ~get_body_with_borrowck_facts(i).input_facts.some

\* C8: Retrieval of an item for which the engine returns no fact set panics and
\* yields no Artifact; a get that triggers it returns nothing and leaves
\* local_index as it was, and a dump pass that triggers it leaves the disk as it
\* was.
C8_MissingFactsAreFatal ==
    [][/\ \A i \in LocalItems : NoFacts(i) => retrieve(i).panicked
       /\ \A i \in LocalItems :
             (/\ last_call'.op = "get" /\ last_call'.key = LocalKey(i)
              /\ i \notin DOMAIN local_cache
              /\ NoFacts(i))
             => (/\ status' = "panicked"
                 /\ ~last_call'.returned
                 /\ local_cache' = local_cache
                 /\ handed' = handed)
       /\ (last_call'.op = "dump" /\ \E i \in LocalItems : NoFacts(i))
             => (status' = "panicked" /\ disk' = disk)]_vars

\* A get asked for a local item without facts after another local item was
\* cached.
C8_Witness ==
    /\ last_call.op = "get" /\ last_call.key.krate = LOCAL_CRATE
    /\ NoFacts(last_call.key.index)
    /\ retrievals[last_call.key.index] = 1
    /\ DOMAIN local_cache # {}
    /\ status = "panicked"

\* The Artifact was handed out for a key under which the cache holds it.
Held(h) ==
    IF h.key.krate = LOCAL_CRATE
    THEN h.key.index \in DOMAIN local_cache /\ local_cache[h.key.index] = h.value
    ELSE /\ h.key.krate \in DOMAIN cache
         /\ h.key.index \in DOMAIN cache[h.key.krate]
         /\ cache[h.key.krate][h.key.index] = h.value

\* C9: no step removes or changes an entry of local_index or of foreign_index,
\* and after every step each Artifact handed out so far is still held,
\* unchanged, under its key.
C9_AppendOnlyCaches ==
    [][/\ \A i \in DOMAIN local_cache :
             i \in DOMAIN local_cache' /\ local_cache'[i] = local_cache[i]
       /\ \A k \in DOMAIN cache :
             k \in DOMAIN cache' /\ cache'[k] = cache[k]
       /\ \A h \in handed' : Held(h)']_vars

\* Both tiers hold several entries and Artifacts of both were handed out.
C9_Witness ==
    /\ DOMAIN local_cache = LocalItems
    /\ DOMAIN cache = ExternCrates
    /\ \A key \in Keys : \E h \in handed : h.key = key
    /\ last_call.hit

\* C10: a get, local or foreign, hit or miss, leaves every file on disk as it
\* was; a step that changes the disk is a dump pass.
C10_GetNeverWrites ==
    [][/\ last_call'.op = "get" => disk' = disk
       /\ disk' # disk => last_call'.op = "dump"]_vars

\* Gets of both tiers, missing and hitting, ran after the dump pass wrote the
\* current unit's bundle.
C10_Witness ==
    /\ last_call.op = "get" /\ last_call.hit /\ last_call.returned
    /\ \E h \in handed : h.key.krate = LOCAL_CRATE
    /\ \E h \in handed : h.key.krate # LOCAL_CRATE
    /\ Fallback \in DOMAIN disk
    /\ disk[Fallback] = encode([i \in LocalItems |-> retrieve(i).value])

\* The step is a get for `key`.
GetStep(key) == last_call'.op = "get" /\ last_call'.key = key

\* C11: the retrieval timer is zero when the session starts and never
\* decreases; it changes only in a get for a local item that misses
\* local_index, by the time that Retrieval took; a get that hits local_index, a
\* get for a foreign item and the dump pass leave it as it was.
C11_TimerMonotone ==
    /\ timer = 0
    /\ [][/\ timer' >= timer
          /\ timer' - timer \in Elapsed \cup {0}
          /\ timer' # timer =>
                \E i \in LocalItems : GetStep(LocalKey(i)) /\ i \notin DOMAIN local_cache
          /\ \A key \in Keys :
                (GetStep(key) /\ (key.krate # LOCAL_CRATE \/ key.index \in DOMAIN local_cache))
                => timer' = timer
          /\ last_call'.op = "dump" => timer' = timer]_vars

\* Every local item was retrieved in measurable time, and a foreign get followed.
C11_Witness ==
    /\ timer = NumLocalItems
    /\ last_call.op = "get" /\ last_call.key.krate # LOCAL_CRATE /\ last_call.returned

\* Positions of the events of one kind in a call's events.
EventsOf(ev) == {n \in 1..Len(last_call.events) : last_call.events[n].ev = ev}

\* C12: a dump pass retrieves every collected item before it encodes, and
\* encodes at most once, to the unit's canonical artifact path, the Bundle of
\* all collected items; if a Retrieval fails it encodes nothing and the disk
\* stays as it was.  No step writes a file that holds only part of the unit's
\* items.
C12_DumpAllOrNothing ==
    [][/\ last_call'.op = "dump" =>
             LET fails == \E i \in Targets : NoFacts(i)
             IN  /\ fails => (disk' = disk /\ status' = "panicked" /\ EventsOf("encode")' = {})
                 /\ ~fails =>
                       /\ Cardinality(EventsOf("encode")') = 1
                       /\ {last_call'.events[n].item : n \in EventsOf("retrieve")'} = Targets
                       /\ \A r \in EventsOf("retrieve")', e \in EventsOf("encode")' : r < e
                       /\ DOMAIN disk' = DOMAIN disk \cup {Fallback}
                       /\ \A p \in DOMAIN disk : p # Fallback => disk'[p] = disk[p]
       /\ \A p \in DOMAIN disk' :
             (p \notin DOMAIN disk \/ disk'[p] # disk[p])
             => (/\ p = Fallback
                 /\ disk'[p].ok
                 /\ {disk'[p].entries[n].index : n \in 1..Len(disk'[p].entries)} = Targets
                 /\ Len(disk'[p].entries) = Cardinality(Targets))]_vars

\* A dump pass failed on a later item after the Retrieval of an earlier one.
C12_Witness ==
    /\ last_call.op = "dump"
    /\ status = "panicked"
    /\ Len(last_call.events) >= 2
    /\ Fallback \notin DOMAIN disk

\* The engine's output for a function of the current unit, before Retrieval.
Raw(i) == get_body_with_borrowck_facts(i)

\* C13: the fact set of an Artifact is the engine's subset_base relation with
\* the third component of every triple dropped: same number of entries, same
\* order, entry n is the pair of the first two components of triple n, and
\* pairs that become equal are all kept.
C13_FactProjection ==
    \A i \in DOMAIN local_cache :
        LET raw == Raw(i).input_facts.subset_base
            got == local_cache[i].input_facts.subset_base
        IN  /\ Len(got) = Len(raw)
            /\ \A n \in 1..Len(raw) : got[n] = <<raw[n][1], raw[n][2]>>

\* An Artifact holds the same pair twice, from two triples that differ only
\* in their third component.
C13_Witness ==
    /\ 1 \in DOMAIN local_cache
    /\ Raw(1).input_facts.subset_base = << <<1, 2, 7>>, <<1, 2, 8>> >>
    /\ local_cache[1].input_facts.subset_base = << <<1, 2>>, <<1, 2>> >>

\* C14: sanitizing is idempotent: sanitizing a sanitized body changes nothing,
\* for the body of every function the engine can return and for every body
\* held in local_index.
C14_SanitizerIdempotent ==
    /\ \A i \in Targets :
          LET once == clean_undecodable_data_from_body(Raw(i).body)
          IN  clean_undecodable_data_from_body(once) = once
    /\ \A i \in DOMAIN local_cache :
          clean_undecodable_data_from_body(local_cache[i].body) = local_cache[i].body

\* local_index holds the sanitized form of a body that had scope data and a
\* block with two FakeRead statements, and sanitizing it again changes nothing.
C14_Witness ==
    /\ 1 \in DOMAIN local_cache
    /\ \E n \in 1..Len(Raw(1).body.source_scopes) : Raw(1).body.source_scopes[n] = "Set"
    /\ \E b \in 1..Len(Raw(1).body.basic_blocks) :
          Raw(1).body.basic_blocks[b] = <<"FakeRead", "FakeRead">>
    /\ clean_undecodable_data_from_body(local_cache[1].body) = local_cache[1].body
    /\ local_cache[1].body # Raw(1).body

\* The Bundle the dump pass hands to the encoder.
Bundle == collect(Targets).bodies

CandidateSeq(krate) == local_or_remote_paths(krate, INTERMEDIATE_ARTIFACT_EXT)

Existing(krate) == {n \in 1..Len(CandidateSeq(krate)) : exists(CandidateSeq(krate)[n])}

\* C16: a get that loads a foreign unit decodes exactly one file, the first
\* candidate in candidate order that exists, and none when no candidate
\* exists.  If that file decodes, its Bundle is stored; if it does not, the
\* session panics and nothing is stored, whatever the later candidates hold.
C16_FirstExistingOnly ==
    [][\A key \in Keys :
          (GetStep(key) /\ key.krate # LOCAL_CRATE /\ key.krate \notin DOMAIN cache)
          => LET paths == CandidateSeq(key.krate)
                 existing == Existing(key.krate)
                 decoded == EventsOf("decode")'
             IN  /\ existing = {} => decoded = {}
                 /\ existing # {} =>
                       LET first == paths[Min(existing)]
                       IN  /\ Cardinality(decoded) = 1
                           /\ \A n \in decoded : last_call'.events[n].path = first
                           /\ decodes'[key.krate] = decodes[key.krate] + 1
                           /\ disk[first].ok =>
                                 (/\ key.krate \in DOMAIN cache'
                                  /\ cache'[key.krate] = decode(disk[first]))
                           /\ ~disk[first].ok =>
                                 (/\ status' = "panicked"
                                  /\ ~last_call'.returned
                                  /\ cache' = cache)]_vars

\* The first candidate of a unit exists and does not decode, a later one exists
\* and decodes; the get read only the first and the session panicked.
C16_Witness ==
    /\ last_call.op = "get" /\ last_call.key.krate = 1
    /\ Existing(1) = {1, 2}
    /\ ~disk[CandidateSeq(1)[1]].ok
    /\ disk[CandidateSeq(1)[2]].ok
    /\ \E n \in EventsOf("decode") : last_call.events[n].path = CandidateSeq(1)[1]
    /\ Cardinality(EventsOf("decode")) = 1
    /\ decodes[1] = 1
    /\ 1 \notin DOMAIN cache
    /\ status = "panicked"

\* C17: every Bundle that foreign_index holds under a unit is that unit's own:
\* each of its Artifacts was made from an item of that unit, under that item's
\* identifier; and the Artifact a get returns for a foreign item (U, i) was
\* made from item i of unit U.
C17_ForeignBundleProvenance ==
    /\ \A k \in DOMAIN cache :
          \A i \in DOMAIN cache[k] :
              cache[k][i].body.source = [krate |-> k, index |-> i]
    /\ (last_call.op = "get" /\ last_call.returned /\ last_call.key.krate # LOCAL_CRATE)
          => last_call.value.body.source = last_call.key

\* The dump pass of the current unit wrote its Bundle, no host-reported
\* location of unit 1 holds a file, and the get for an item of unit 1 returned
\* the current unit's Artifact of the same index.
C17_Witness ==
    /\ last_call.op = "get" /\ last_call.returned
    /\ last_call.key = [krate |-> 1, index |-> 1]
    /\ NoHostCandidateExists(1)
    /\ Fallback \in DOMAIN disk /\ disk[Fallback] = encode(Bundle)
    /\ 1 \in DOMAIN cache /\ cache[1] = Bundle
    /\ last_call.value = retrieve(1).value
    /\ last_call.value.body.source = [krate |-> LOCAL_CRATE, index |-> 1]

\* C18: a get for an item of the current unit resolves no paths, decodes no
\* file and leaves foreign_index as it was, whether or not the current unit's
\* artifact file exists; a get for a foreign item runs no Retrieval and leaves
\* local_index and the timer as they were.
C18_TiersDisjoint ==
    [][\A key \in Keys :
          GetStep(key) =>
            IF key.krate = LOCAL_CRATE
            THEN /\ cache' = cache
                 /\ resolutions' = resolutions
                 /\ decodes' = decodes
                 /\ EventsOf("resolve")' = {}
                 /\ EventsOf("decode")' = {}
            ELSE /\ local_cache' = local_cache
                 /\ timer' = timer
                 /\ retrievals' = retrievals
                 /\ EventsOf("retrieve")' = {}]_vars

\* After a foreign unit was loaded, a get retrieved a local item while the
\* current unit's artifact file existed: one Retrieval, one resolution and one
\* decode in all.
C18_Witness ==
    /\ last_call.op = "get" /\ last_call.key = LocalKey(1)
    /\ last_call.returned /\ ~last_call.hit
    /\ Fallback \in DOMAIN disk
    /\ DOMAIN cache = {1}
    /\ DOMAIN local_cache = {1}
    /\ retrievals[1] = 1 /\ \A i \in LocalItems \ {1} : retrievals[i] = 0
    /\ resolutions[1] = 1 /\ \A k \in ExternCrates \ {1} : resolutions[k] = 0
    /\ decodes[1] = 1 /\ \A k \in ExternCrates \ {1} : decodes[k] = 0
    /\ timer \in Elapsed

\* Every scope's local data is cleared and no statement is a FakeRead.
Sanitized(body) ==
    /\ \A n \in 1..Len(body.source_scopes) : body.source_scopes[n] = "Clear"
    /\ \A b \in 1..Len(body.basic_blocks) :
          \A st \in 1..Len(body.basic_blocks[b]) : body.basic_blocks[b][st] # "FakeRead"

\* C19: every Artifact in local_index and every Artifact of a Bundle that the
\* dump pass wrote is sanitized: all scope-local data cleared, no FakeRead
\* statement.
C19_ArtifactsSanitized ==
    /\ \A i \in DOMAIN local_cache : Sanitized(local_cache[i].body)
    /\ \A p \in DOMAIN disk :
          \A n \in 1..Len(disk[p].entries) : Sanitized(disk[p].entries[n].body)

\* A body with scope data and FakeRead statements was retrieved by a get and
\* written by the dump pass.
C19_Witness ==
    /\ 1 \in DOMAIN local_cache
    /\ Fallback \in DOMAIN disk
    /\ \E n \in 1..Len(disk[Fallback].entries) : disk[Fallback].entries[n].index = 1
    /\ ~Sanitized(Raw(1).body)
    /\ \E n \in 1..Len(Raw(1).body.source_scopes) : Raw(1).body.source_scopes[n] = "Set"
    /\ \E b \in 1..Len(Raw(1).body.basic_blocks) :
          \E st \in 1..Len(Raw(1).body.basic_blocks[b]) :
              Raw(1).body.basic_blocks[b][st] = "FakeRead"
    /\ Sanitized(local_cache[1].body)

\* What the Sanitizer may change between a body and its sanitized form: the
\* item, the number of scopes, the number of blocks and the number of
\* statements of every block stay; a FakeRead becomes a Nop at its position
\* and every other statement stays as it is.
SanitizerFrame(raw, got) ==
    /\ got.source = raw.source
    /\ Len(got.source_scopes) = Len(raw.source_scopes)
    /\ Len(got.basic_blocks) = Len(raw.basic_blocks)
    /\ \A b \in 1..Len(raw.basic_blocks) :
          /\ Len(got.basic_blocks[b]) = Len(raw.basic_blocks[b])
          /\ \A st \in 1..Len(raw.basic_blocks[b]) :
                got.basic_blocks[b][st] =
                    IF raw.basic_blocks[b][st] = "FakeRead"
                    THEN "Nop" ELSE raw.basic_blocks[b][st]

\* C20: the Sanitizer keeps the number of basic blocks, the number and the
\* positions of the statements of every block and every statement that is not
\* a FakeRead; it replaces each FakeRead in place by a Nop.  This holds for the
\* body of every function the engine returns and for every body in local_index.
C20_SanitizerKeepsPositions ==
    /\ \A i \in Targets :
          SanitizerFrame(Raw(i).body, clean_undecodable_data_from_body(Raw(i).body))
    /\ \A i \in DOMAIN local_cache : SanitizerFrame(Raw(i).body, local_cache[i].body)

\* A FakeRead in front of another statement was replaced in place: the
\* statement behind it is still the second of its block.
C20_Witness ==
    /\ 1 \in DOMAIN local_cache
    /\ Len(Raw(1).body.basic_blocks) = 2
    /\ Raw(1).body.basic_blocks[1] = <<"FakeRead", "Assign">>
    /\ local_cache[1].body.basic_blocks[1] = <<"Nop", "Assign">>
    /\ local_cache[1].body.basic_blocks[2] = <<"Nop", "Nop">>

====
